---- MODULE Spec2Model ----
(***************************************************************************)
(* Model of the AskMyNotes backend: the per-session conversation memory    *)
(* (conversation_memory.py) and the retrieval gate / confidence scoring of *)
(* the RAG engine (rag_engine.py).                                         *)
(***************************************************************************)
EXTENDS Integers, Sequences, FiniteSets, TLC

\* ------------------------------------------------------------------ bounds
\* A run is either one long conversation or several short-lived sessions.
LongSessions == 1   \* long run: how many ids uuid4 hands out
MaxAdds == 12       \* long run: add_turn calls accepted per session
LongTicks == 1      \* long run: how many times the clock advances
MaxSessions == 2    \* wide run: how many ids uuid4 hands out
WideAdds == 2       \* wide run: add_turn calls accepted per session
MaxTicks == 2       \* wide run: how many times the clock advances
MaxCand == 3        \* how many candidates a retrieval returns at most
VoiceCand == 1      \* candidates a retrieval returns to a voice request
MaxText == 3        \* characters of a model response inside its fences
\* The index is filled by one document of MaxLines lines or MaxPages pages,
\* or by k documents of a k-th of that size each.
MaxIngests == 2     \* how many documents are ingested at most
MaxLines == 3       \* lines of a text file
MaxPages == 2       \* pages of a PDF
PdfLines == 1       \* lines of a PDF page
MaxQueried == 3     \* stored chunks up to which the index is queried
MaxTail == 2        \* chunks stored after those of a large document
MaxHistory == 7     \* messages of a history handed to chat

IndexBudgets ==
    {[ingests |-> k, lines |-> MaxLines \div k, pdf_lines |-> PdfLines,
      pages |-> MaxPages \div k] : k \in 1..MaxIngests}

Budgets ==
    {[ids |-> LongSessions, adds |-> MaxAdds, ticks |-> LongTicks],
     [ids |-> MaxSessions, adds |-> WideAdds, ticks |-> MaxTicks]}

\* --------------------------------------------------------------- constants
MAX_TURNS == 10
SESSION_TTL == 30 * 60

\* Text is a sequence of characters.  Subject ids: "m" and "P".
Subjects == {<<"m">>, <<"P">>}
None == "None"
Steps == {1, SESSION_TTL}

\* Scores are in hundredths: 15 is the score 0.15.
SIMILARITY_THRESHOLD == 15

VARIABLES
    budget,     \* the bounds of this run, fixed at the start
    sessions,   \* ConversationMemory._sessions: session id -> Session
    now,        \* time.time()
    nextId,     \* the next id uuid.uuid4() returns (fresh ids, never reused)
    ticks,      \* how often the clock has advanced
    call,       \* the last call made on the memory and what it found
    ret,        \* the value that call returned
    appended,   \* per stored session: every message add_turn appended, ever
    bound,      \* per created session: the subject create_session was given
                \* and the time of the call
    refreshed,  \* per stored session: when it was created or last passed
                \* to get_history or add_turn
    evicted     \* ids a garbage-collection pass has removed

VARIABLES
    req,        \* the request an engine call is made with, and what the
                \* retriever, the speech-to-text service and the language
                \* model answer for it
    pc,         \* "off", "idle" before the engine call, "done" after it
    result      \* what the engine call returned

VARIABLES
    ibudget,    \* the bounds of this run on documents, fixed at the start
    collection,     \* the points stored in the Qdrant collection, oldest first
    ingests,    \* how many documents have been handed to the engine
    lastop      \* the last call on the index: its inputs and its outcome

VARIABLES
    voice,      \* the /voice/chat requests in progress: for each its position
                \* in the handler, its local variables and its response
    quiz        \* a model response handed to _parse_json_response, and the
                \* value it returned

chatVars == <<req, pc, result>>

idxVars == <<ibudget, collection, ingests, lastop>>

memVars ==
    <<budget, sessions, now, nextId, ticks, call, ret, appended, bound,
      refreshed, evicted>>

\* --------------------------------------------------------------------- text
\* str.lower(), on the letters the model uses
LowerChar(c) ==
    CASE c = "N" -> "n"
      [] c = "F" -> "f"
      [] c = "M" -> "m"
      [] c = "P" -> "p"
      [] c = "I" -> "i"
      [] c = "D" -> "d"
      [] OTHER -> c

lower(text) == [i \in 1..Len(text) |-> LowerChar(text[i])]

\* needle in hay
Contains(needle, hay) ==
    \E i \in 0..(Len(hay) - Len(needle)) :
        SubSeq(hay, i + 1, i + Len(needle)) = needle

\* str.isspace() of one character: the blank, the newline and, standing for
\* the white space of Python that is none of JSON, the form feed
isspace(c) == c \in {" ", "\n", "\f"}

\* str.strip()
RECURSIVE lstrip(_)
lstrip(text) ==
    IF text # <<>> /\ isspace(text[1]) THEN lstrip(Tail(text)) ELSE text

RECURSIVE rstrip(_)
rstrip(text) ==
    IF text # <<>> /\ isspace(text[Len(text)])
    THEN rstrip(SubSeq(text, 1, Len(text) - 1)) ELSE text

strip(text) == rstrip(lstrip(text))

\* ------------------------------------------------------ conversation memory
Session(sid, subject, t) ==
    [session_id |-> sid, subject_id |-> subject, history |-> <<>>,
     last_active |-> t]

Message(role, content) == [role |-> role, content |-> content]

\* history[-n:]
LastN(h, n) == IF Len(h) <= n THEN h ELSE SubSeq(h, Len(h) - n + 1, Len(h))

\* the comparison with its operands the wrong way round
Expired_swapped(S, t) ==
    {sid \in DOMAIN S : S[sid].last_active - t > SESSION_TTL}

\* the list `expired` that _gc builds
Expired(S, t) == {sid \in DOMAIN S : t - S[sid].last_active > SESSION_TTL}

\* a pass that also removes the sessions idle for exactly SESSION_TTL
gc_at_ttl(S, t) ==
    [sid \in {x \in DOMAIN S : t - S[x].last_active < SESSION_TTL} |-> S[sid]]

gc(S, t) == [sid \in DOMAIN S \ Expired(S, t) |-> S[sid]]

create_session(S, subject, sid, t) ==
    LET G == gc(S, t)
    IN  [mem |-> [x \in DOMAIN G \cup {sid} |->
                     IF x = sid THEN Session(sid, subject, t) ELSE G[x]],
         ret |-> sid]

\* the read that checks the age of the session itself
get_history_expiring(S, sid, t) ==
    IF sid \notin DOMAIN S \/ t - S[sid].last_active > SESSION_TTL
    THEN [mem |-> S, ret |-> <<>>]
    ELSE [mem |-> [S EXCEPT ![sid].last_active = t],
          ret |-> S[sid].history]

\* the read that forgets to refresh last_active
get_history_no_refresh(S, sid, t) ==
    IF sid \notin DOMAIN S
    THEN [mem |-> S, ret |-> <<>>]
    ELSE [mem |-> S, ret |-> S[sid].history]

get_history(S, sid, t) ==
    IF sid \notin DOMAIN S
    THEN [mem |-> S, ret |-> <<>>]
    ELSE [mem |-> [S EXCEPT ![sid].last_active = t],
          ret |-> S[sid].history]

\* the trim that keeps the head, history[:MAX_TURNS * 2]
add_turn_head(S, sid, user_message, assistant_message, t) ==
    IF sid \notin DOMAIN S
    THEN [mem |-> S, ret |-> None]
    ELSE LET h1 == Append(S[sid].history, Message("user", user_message))
             h2 == Append(h1, Message("assistant", assistant_message))
             h3 == IF Len(h2) > MAX_TURNS * 2
                   THEN SubSeq(h2, 1, MAX_TURNS * 2) ELSE h2
         IN  [mem |-> [S EXCEPT ![sid].history = h3,
                                ![sid].last_active = t],
              ret |-> None]

\* the trim that fires one turn late, len(history) > MAX_TURNS * 2 + 2
add_turn_late(S, sid, user_message, assistant_message, t) ==
    IF sid \notin DOMAIN S
    THEN [mem |-> S, ret |-> None]
    ELSE LET h1 == Append(S[sid].history, Message("user", user_message))
             h2 == Append(h1, Message("assistant", assistant_message))
             h3 == IF Len(h2) > MAX_TURNS * 2 + 2
                   THEN LastN(h2, MAX_TURNS * 2) ELSE h2
         IN  [mem |-> [S EXCEPT ![sid].history = h3,
                                ![sid].last_active = t],
              ret |-> None]

\* an unknown id that opens a session, as dict.setdefault would
add_turn_autocreate(S, sid, user_message, assistant_message, t) ==
    LET T == IF sid \in DOMAIN S THEN S
             ELSE [x \in DOMAIN S \cup {sid} |->
                      IF x = sid THEN Session(sid, None, t) ELSE S[x]]
        h1 == Append(T[sid].history, Message("user", user_message))
        h2 == Append(h1, Message("assistant", assistant_message))
        h3 == IF Len(h2) > MAX_TURNS * 2
              THEN LastN(h2, MAX_TURNS * 2) ELSE h2
    IN  [mem |-> [T EXCEPT ![sid].history = h3, ![sid].last_active = t],
         ret |-> None]

\* the trim that keeps one message less than MAX_TURNS pairs
add_turn_odd(S, sid, user_message, assistant_message, t) ==
    IF sid \notin DOMAIN S
    THEN [mem |-> S, ret |-> None]
    ELSE LET h1 == Append(S[sid].history, Message("user", user_message))
             h2 == Append(h1, Message("assistant", assistant_message))
             h3 == IF Len(h2) > MAX_TURNS * 2
                   THEN LastN(h2, MAX_TURNS * 2 - 1) ELSE h2
         IN  [mem |-> [S EXCEPT ![sid].history = h3,
                                ![sid].last_active = t],
              ret |-> None]

add_turn(S, sid, user_message, assistant_message, t) ==
    IF sid \notin DOMAIN S
    THEN [mem |-> S, ret |-> None]
    ELSE LET h1 == Append(S[sid].history, Message("user", user_message))
             h2 == Append(h1, Message("assistant", assistant_message))
             h3 == IF Len(h2) > MAX_TURNS * 2
                   THEN LastN(h2, MAX_TURNS * 2) ELSE h2
         IN  [mem |-> [S EXCEPT ![sid].history = h3,
                                ![sid].last_active = t],
              ret |-> None]

\* the subject id normalised on the way out
get_subject_id_lower(S, sid) ==
    [mem |-> S,
     ret |-> IF sid \in DOMAIN S THEN lower(S[sid].subject_id) ELSE None]

get_subject_id(S, sid) ==
    [mem |-> S,
     ret |-> IF sid \in DOMAIN S THEN S[sid].subject_id ELSE None]

delete_session(S, sid) ==
    [mem |-> [x \in DOMAIN S \ {sid} |-> S[x]], ret |-> None]

\* --------------------------------------------------------------- RAG engine
\* A retrieved node is [id, score]: id is its place in the retriever's answer,
\* score (Optional[float]) is <<>> for None and <<v>> for the score v.
NoScore == <<>>

\* f"Not found in your notes for {subject_id}", the literal written "Nf_"
not_found_phrase(subject_id) == <<"N", "f", "_">> \o subject_id

\* f"I could not find relevant information in your {subject_id} notes for
\* the question: {transcript}", the literals written "I_" and ":"
not_found_msg(subject_id, transcript) ==
    <<"I", "_">> \o subject_id \o <<":">> \o transcript

\* the comparison turned round
SimilarityGate_inverted(retrieved_nodes, threshold) ==
    SelectSeq(retrieved_nodes,
              LAMBDA n : n.score # NoScore /\ n.score[1] <= threshold)

\* > in place of >=
SimilarityGate_strict(retrieved_nodes, threshold) ==
    SelectSeq(retrieved_nodes,
              LAMBDA n : n.score # NoScore /\ n.score[1] > threshold)

\* [n for n in retrieved_nodes if n.score is not None and n.score >= ...]
SimilarityGate(retrieved_nodes, threshold) ==
    SelectSeq(retrieved_nodes,
              LAMBDA n : n.score # NoScore /\ n.score[1] >= threshold)

\* the citation of one node; round(score, 4) leaves hundredths as they are
Citation(node, subject_id) ==
    [node |-> node.id, subject_id |-> subject_id,
     relevance_score |-> IF node.score # NoScore THEN node.score[1] ELSE 0]

Citations(valid_nodes, subject_id) ==
    [i \in 1..Len(valid_nodes) |-> Citation(valid_nodes[i], subject_id)]

RECURSIVE SumScores(_)
SumScores(nodes) ==
    IF nodes = <<>> THEN 0 ELSE nodes[1].score[1] + SumScores(Tail(nodes))

\* sum(n.score for n in valid_nodes) / len(valid_nodes), as a fraction
avg_score(valid_nodes) ==
    [num |-> SumScores(valid_nodes), den |-> Len(valid_nodes)]

\* avg >= c / 100
AtLeast(avg, c) == avg.num >= c * avg.den

\* > in place of >= at the upper boundary
confidence_strict(valid_nodes) ==
    LET avg == avg_score(valid_nodes)
    IN  IF avg.num > 75 * avg.den THEN "High"
        ELSE IF AtLeast(avg, 40) THEN "Medium"
        ELSE "Low"

confidence(valid_nodes) ==
    LET avg == avg_score(valid_nodes)
    IN  IF AtLeast(avg, 75) THEN "High"
        ELSE IF AtLeast(avg, 40) THEN "Medium"
        ELSE "Low"

\* `if not retrieved_nodes:`, the test made on the list before the gate
nothing_valid_ungated(retrieved_nodes, valid_nodes) == retrieved_nodes = <<>>

\* `if not valid_nodes:`
nothing_valid(retrieved_nodes, valid_nodes) == valid_nodes = <<>>

\* `not_found_phrase in answer`, without lower()
says_not_found_exact(phrase, answer) == Contains(phrase, answer)

\* `not_found_phrase.lower() in answer.lower()`
says_not_found(phrase, answer) == Contains(lower(phrase), lower(answer))

chat(query, subject_id, retrieved_nodes, llm_answer) ==
    LET valid_nodes == SimilarityGate(retrieved_nodes, SIMILARITY_THRESHOLD)
        phrase == not_found_phrase(subject_id)
    IN  IF nothing_valid(retrieved_nodes, valid_nodes)
        THEN [fn |-> "chat", status |-> "ok", path |-> "not_found",
              valid_nodes |-> valid_nodes, llm_called |-> FALSE,
              tts_input |-> None, transcript |-> None,
              answer |-> phrase, citations |-> <<>>, confidence |-> "Low"]
        ELSE IF says_not_found(phrase, llm_answer)
        THEN [fn |-> "chat", status |-> "ok", path |-> "downgraded",
              valid_nodes |-> valid_nodes, llm_called |-> TRUE,
              tts_input |-> None, transcript |-> None,
              answer |-> phrase, citations |-> <<>>, confidence |-> "Low"]
        ELSE [fn |-> "chat", status |-> "ok", path |-> "answered",
              valid_nodes |-> valid_nodes, llm_called |-> TRUE,
              tts_input |-> None, transcript |-> None,
              answer |-> llm_answer,
              citations |-> Citations(valid_nodes, subject_id),
              confidence |-> confidence(valid_nodes)]

voice_chat(stt_text, subject_id, retrieved_nodes, llm_answer) ==
    LET transcript == strip(stt_text)
        valid_nodes == SimilarityGate(retrieved_nodes, SIMILARITY_THRESHOLD)
        msg == not_found_msg(subject_id, transcript)
    IN  IF transcript = <<>>
        THEN [fn |-> "voice_chat", status |-> "ValueError", path |-> "raised",
              valid_nodes |-> <<>>, llm_called |-> FALSE,
              tts_input |-> None, transcript |-> transcript,
              answer |-> None, citations |-> <<>>, confidence |-> None]
        ELSE IF valid_nodes = <<>>
        THEN [fn |-> "voice_chat", status |-> "ok", path |-> "not_found",
              valid_nodes |-> valid_nodes, llm_called |-> FALSE,
              tts_input |-> msg, transcript |-> transcript,
              answer |-> msg, citations |-> <<>>, confidence |-> "Low"]
        ELSE [fn |-> "voice_chat", status |-> "ok", path |-> "answered",
              valid_nodes |-> valid_nodes, llm_called |-> TRUE,
              tts_input |-> llm_answer, transcript |-> transcript,
              answer |-> llm_answer,
              citations |-> Citations(valid_nodes, subject_id),
              confidence |-> confidence(valid_nodes)]

\* ---------------------------------------------------------------- ingestion
\* A page (or a text file) is the list raw_text.split("\n") of its lines; a
\* line is a text over " " (blank), "a" (a word) and "L" (a passage longer
\* than CHUNK_SIZE).  A stored point is the payload of one chunk, point ids
\* being the places in the collection.

\* raw_text.strip() == "": no line has anything but blanks
no_text(lines) == \A i \in 1..Len(lines) : strip(lines[i]) = <<>>

\* the paragraph that is flushed with the range of the blank line after it
Paragraph_off_by_one(current_lines, current_start_line) ==
    [text |-> current_lines,
     line_start |-> current_start_line,
     line_end |-> current_start_line + Len(current_lines)]

\* the paragraph numbered with line_idx, which counts from 0
Paragraph_zero_based(current_lines, current_start_line) ==
    [text |-> current_lines,
     line_start |-> current_start_line - 1,
     line_end |-> current_start_line + Len(current_lines) - 2]

Paragraph(current_lines, current_start_line) ==
    [text |-> current_lines,
     line_start |-> current_start_line,
     line_end |-> current_start_line + Len(current_lines) - 1]

\* the loop `for line_idx, line in enumerate(lines)` and the final flush;
\* line_idx counts from 0
RECURSIVE split_paragraphs(_, _, _, _, _)
split_paragraphs(lines, line_idx, paragraphs, current_lines, current_start_line) ==
    IF line_idx = Len(lines)
    THEN IF current_lines # <<>>
         THEN Append(paragraphs, Paragraph(current_lines, current_start_line))
         ELSE paragraphs
    ELSE LET line == lines[line_idx + 1]
         IN  IF strip(line) = <<>>
             THEN split_paragraphs(
                      lines, line_idx + 1,
                      IF current_lines # <<>>
                      THEN Append(paragraphs,
                                  Paragraph(current_lines, current_start_line))
                      ELSE paragraphs,
                      <<>>, line_idx + 2)
             ELSE split_paragraphs(
                      lines, line_idx + 1, paragraphs,
                      Append(current_lines, line),
                      IF current_lines = <<>>
                      THEN line_idx + 1 ELSE current_start_line)

paragraphs_of(lines) == split_paragraphs(lines, 0, <<>>, <<>>, 1)

\* SentenceSplitter.get_nodes_from_documents: one chunk, or two when the
\* paragraph holds a passage longer than CHUNK_SIZE
pieces(para) ==
    IF \E i \in 1..Len(para.text) : Contains(<<"L">>, para.text[i])
    THEN <<1, 2>> ELSE <<1>>

\* the chunks of one paragraph, each stamped with the paragraph's range
chunks_of(para, file_name, page_number, subject_id) ==
    IF no_text(para.text) THEN <<>>
    ELSE [k \in 1..Len(pieces(para)) |->
             [file_name |-> file_name, page_number |-> page_number,
              subject_id |-> subject_id, line_start |-> para.line_start,
              line_end |-> para.line_end, piece |-> pieces(para)[k]]]

RECURSIVE chunks_of_all(_, _, _, _)
chunks_of_all(paragraphs, file_name, page_number, subject_id) ==
    IF paragraphs = <<>> THEN <<>>
    ELSE chunks_of(paragraphs[1], file_name, page_number, subject_id)
         \o chunks_of_all(Tail(paragraphs), file_name, page_number, subject_id)

page_nodes(lines, file_name, page_number, subject_id) ==
    chunks_of_all(paragraphs_of(lines), file_name, page_number, subject_id)

\* VectorStoreIndex(nodes=...): embeds and upserts; when the embedding or the
\* index service fails, `written` of the nodes are stored already
upsert(index, nodes, written) == index \o SubSeq(nodes, 1, written)

ingest_txt(index, lines, file_name, subject_id, written) ==
    LET all_nodes == page_nodes(lines, file_name, 1, subject_id)
    IN  IF no_text(lines)
        THEN [status |-> "ValueError", index |-> index, ret |-> None]
        ELSE IF all_nodes = <<>>
        THEN [status |-> "ValueError", index |-> index, ret |-> None]
        ELSE IF written < Len(all_nodes)
        THEN [status |-> "Exception",
              index |-> upsert(index, all_nodes, written), ret |-> None]
        ELSE [status |-> "ok", index |-> upsert(index, all_nodes, written),
              ret |-> [file_name |-> file_name, subject_id |-> subject_id,
                       pages_processed |-> 1,
                       chunks_created |-> Len(all_nodes)]]

\* the list `pages`: the pages with text, with their 1-based numbers
RECURSIVE text_pages(_, _)
text_pages(doc, page_idx) ==
    IF page_idx = Len(doc) THEN <<>>
    ELSE (IF no_text(doc[page_idx + 1]) THEN <<>>
          ELSE <<[text |-> doc[page_idx + 1], page_number |-> page_idx + 1]>>)
         \o text_pages(doc, page_idx + 1)

RECURSIVE pdf_nodes(_, _, _)
pdf_nodes(pages, file_name, subject_id) ==
    IF pages = <<>> THEN <<>>
    ELSE page_nodes(pages[1].text, file_name, pages[1].page_number,
                    subject_id)
         \o pdf_nodes(Tail(pages), file_name, subject_id)

\* ingest_pdf without `if not pages: raise ValueError(...)`
ingest_pdf_unchecked(index, file, file_name, subject_id, written) ==
    LET pages == text_pages(file.doc, 0)
        all_nodes == pdf_nodes(pages, file_name, subject_id)
    IN  IF ~file.opens
        THEN [status |-> "Exception", index |-> index, ret |-> None]
        ELSE [status |-> "ok",
              index |-> upsert(index, all_nodes, Len(all_nodes)),
              ret |-> [file_name |-> file_name, subject_id |-> subject_id,
                       pages_processed |-> Len(pages),
                       chunks_created |-> Len(all_nodes)]]

\* file is [opens, doc]: whether fitz.open accepts the bytes, and the lines
\* of each page of the document
ingest_pdf(index, file, file_name, subject_id, written) ==
    LET pages == text_pages(file.doc, 0)
        all_nodes == pdf_nodes(pages, file_name, subject_id)
    IN  IF ~file.opens
        THEN [status |-> "Exception", index |-> index, ret |-> None]
        ELSE IF pages = <<>>
        THEN [status |-> "ValueError", index |-> index, ret |-> None]
        ELSE IF written < Len(all_nodes)
        THEN [status |-> "Exception",
              index |-> upsert(index, all_nodes, written), ret |-> None]
        ELSE [status |-> "ok", index |-> upsert(index, all_nodes, written),
              ret |-> [file_name |-> file_name, subject_id |-> subject_id,
                       pages_processed |-> Len(pages),
                       chunks_created |-> Len(all_nodes)]]

\* ord(c) of the characters that occur in subject ids and file names
ord(c) ==
    CASE c = " " -> 32 [] c = "." -> 46 [] c = "D" -> 68 [] c = "F" -> 70
      [] c = "P" -> 80 [] c = "a" -> 97 [] c = "b" -> 98 [] c = "d" -> 100
      [] c = "f" -> 102 [] c = "m" -> 109 [] c = "p" -> 112 [] c = "t" -> 116
      [] c = "x" -> 120

\* s <= t for Python strings
RECURSIVE str_le(_, _)
str_le(s, t) ==
    IF s = <<>> THEN TRUE
    ELSE IF t = <<>> THEN FALSE
    ELSE IF ord(s[1]) # ord(t[1]) THEN ord(s[1]) < ord(t[1])
    ELSE str_le(Tail(s), Tail(t))

\* sorted(seen) of a set of strings
RECURSIVE sorted(_)
sorted(seen) ==
    IF seen = {} THEN <<>>
    ELSE LET least == CHOOSE s \in seen : \A t \in seen : str_le(s, t)
         IN  <<least>> \o sorted(seen \ {least})

\* qdrant_client.scroll(limit=...)[0]: the first points of the collection
scroll(index, limit) ==
    SubSeq(index, 1, IF Len(index) < limit THEN Len(index) ELSE limit)

get_subjects(index) ==
    LET points == scroll(index, 1000)
    IN  sorted({points[i].subject_id : i \in
                   {j \in 1..Len(points) : points[j].subject_id # <<>>}})

get_files_for_subject(index, subject_id) ==
    LET points == scroll(SelectSeq(index, LAMBDA point :
                                      point.subject_id = subject_id), 500)
    IN  sorted({points[i].file_name : i \in
                   {j \in 1..Len(points) : points[j].file_name # <<>>}})

\* text.endswith(suffix)
endswith(text, suffix) ==
    /\ Len(text) >= Len(suffix)
    /\ SubSeq(text, Len(text) - Len(suffix) + 1, Len(text)) = suffix

\* isinstance(exc, cls) for the exceptions raised in the handlers:
\* HTTPException, ValueError and the others all derive from Exception
IsInstance(exc, cls) == cls = "Exception" \/ exc = cls

\* POST /upload.  upload is [filename, empty, opens, doc]: the file name, the
\* bytes being none, and what fitz makes of the bytes.
upload_pdf(index, upload, subject_id, written) ==
    IF upload.filename = <<>>
       \/ ~endswith(lower(upload.filename), <<".", "p", "d", "f">>)
    THEN [code |-> 400, index |-> index]
    ELSE LET tried ==
                 IF upload.empty
                 THEN [status |-> "HTTPException", code |-> 400,
                       index |-> index, ret |-> None]
                 ELSE ingest_pdf(index, upload, upload.filename,
                                 strip(subject_id), written)
         IN  IF tried.status = "ok"
             THEN [code |-> 200, index |-> tried.index]
             ELSE IF IsInstance(tried.status, "ValueError")
             THEN [code |-> 422, index |-> tried.index]
             ELSE IF IsInstance(tried.status, "Exception")
             THEN [code |-> 500, index |-> tried.index]
             ELSE [code |-> tried.code, index |-> tried.index]

\* ---------------------------------------------------------------- retrieval
similarity_top_k == 8

\* the matching point with the best score, the earlier one on a tie
Best(ids, scores) ==
    CHOOSE i \in ids :
        \A j \in ids : scores[i] > scores[j] \/ (scores[i] = scores[j] /\ i <= j)

RECURSIVE Ranked(_, _, _)
Ranked(ids, scores, k) ==
    IF ids = {} \/ k = 0 THEN <<>>
    ELSE LET b == Best(ids, scores)
         IN  <<b>> \o Ranked(ids \ {b}, scores, k - 1)

\* a retriever built without `filters`
Matching_unfiltered(index, subject_id) == DOMAIN index

\* MetadataFilter(key="subject_id", value=subject_id, operator=EQ)
Matching(index, subject_id) ==
    {i \in DOMAIN index : index[i].subject_id = subject_id}

\* retriever.aretrieve(query): the points that pass the filter, best score
\* first, at most similarity_top_k of them; scores[i] is the similarity of
\* point i to the query
Retrieve(index, subject_id, scores) ==
    LET order == Ranked(Matching(index, subject_id), scores,
                        similarity_top_k)
    IN  [r \in 1..Len(order) |->
            [id |-> r, score |-> <<scores[order[r]]>>, point |-> order[r]]]

\* ------------------------------------------------------------------ helpers
SessionIds == 1..budget.ids

Restrict(f, D) == [x \in DOMAIN f \cap D |-> f[x]]

Called(op, sid) ==
    [op |-> op, sid |-> sid,
     found |-> sid \in DOMAIN sessions,
     stale |-> sid \in Expired(sessions, now)]

\* the n-th question and answer a client sends to a session
Question(n) == <<"q", n>>
Answer(n) == <<"a", n>>

\* ------------------------------------------------------------------ actions
MemEmpty ==
    /\ sessions = <<>>
    /\ now = 0
    /\ nextId = 1
    /\ ticks = 0
    /\ call = [op |-> "init", sid |-> 0, found |-> FALSE, stale |-> FALSE]
    /\ ret = None
    /\ appended = <<>>
    /\ bound = <<>>
    /\ refreshed = <<>>
    /\ evicted = {}

MemInit ==
    /\ budget \in Budgets
    /\ MemEmpty

MemOff ==
    /\ budget = [ids |-> 0, adds |-> 0, ticks |-> 0]
    /\ MemEmpty

Tick ==
    /\ ticks < budget.ticks
    /\ \E d \in Steps : now' = now + d
    /\ ticks' = ticks + 1
    /\ call' = [op |-> "tick", sid |-> 0, found |-> FALSE, stale |-> FALSE]
    /\ ret' = None
    /\ UNCHANGED <<budget, sessions, nextId, appended, bound, refreshed, evicted>>
    /\ UNCHANGED <<chatVars, idxVars, voice, quiz>>

CreateSession ==
    /\ nextId <= budget.ids
    /\ \E subject \in Subjects :
          LET r == create_session(sessions, subject, nextId, now)
          IN  /\ sessions' = r.mem
              /\ ret' = r.ret
              /\ bound' = [x \in DOMAIN bound \cup {nextId} |->
                              IF x = nextId
                              THEN [subject_id |-> subject, created |-> now]
                              ELSE bound[x]]
              /\ refreshed' = [x \in DOMAIN r.mem |->
                                  IF x = nextId THEN now ELSE refreshed[x]]
              /\ appended' = [x \in DOMAIN r.mem |->
                                 IF x = nextId THEN <<>> ELSE appended[x]]
    /\ evicted' = evicted \cup ((DOMAIN sessions) \ (DOMAIN sessions'))
    /\ call' = Called("create_session", nextId)
    /\ nextId' = nextId + 1
    /\ UNCHANGED <<budget, now, ticks>>
    /\ UNCHANGED <<chatVars, idxVars, voice, quiz>>

GetHistory ==
    \E sid \in SessionIds :
        LET r == get_history(sessions, sid, now)
        IN  /\ sessions' = r.mem
            /\ ret' = r.ret
            /\ call' = Called("get_history", sid)
            /\ refreshed' = IF sid \in DOMAIN refreshed
                            THEN [refreshed EXCEPT ![sid] = now]
                            ELSE refreshed
            /\ UNCHANGED <<budget, now, nextId, ticks, appended, bound,
                           evicted>>
            /\ UNCHANGED <<chatVars, idxVars, voice, quiz>>

AddTurn ==
    \E sid \in SessionIds :
        LET n == IF sid \in DOMAIN appended
                 THEN Len(appended[sid]) \div 2 + 1 ELSE 1
            r == add_turn(sessions, sid, Question(n), Answer(n), now)
        IN  /\ n <= budget.adds
            /\ sessions' = r.mem
            /\ ret' = r.ret
            /\ appended' =
                  IF sid \in DOMAIN appended
                  THEN [appended EXCEPT ![sid] =
                           Append(Append(@, Message("user", Question(n))),
                                  Message("assistant", Answer(n)))]
                  ELSE appended
            /\ call' = Called("add_turn", sid)
            /\ refreshed' = IF sid \in DOMAIN refreshed
                            THEN [refreshed EXCEPT ![sid] = now]
                            ELSE refreshed
            /\ UNCHANGED <<budget, now, nextId, ticks, bound, evicted>>
            /\ UNCHANGED <<chatVars, idxVars, voice, quiz>>

GetSubjectId ==
    \E sid \in SessionIds :
        LET r == get_subject_id(sessions, sid)
        IN  /\ sessions' = r.mem
            /\ ret' = r.ret
            /\ call' = Called("get_subject_id", sid)
            /\ UNCHANGED <<budget, now, nextId, ticks, appended, bound,
                           refreshed, evicted>>
            /\ UNCHANGED <<chatVars, idxVars, voice, quiz>>

DeleteSession ==
    \E sid \in SessionIds :
        LET r == delete_session(sessions, sid)
        IN  /\ sessions' = r.mem
            /\ ret' = r.ret
            /\ appended' = Restrict(appended, DOMAIN r.mem)
            /\ refreshed' = Restrict(refreshed, DOMAIN r.mem)
            /\ call' = Called("delete_session", sid)
            /\ UNCHANGED <<budget, now, nextId, ticks, bound, evicted>>
            /\ UNCHANGED <<chatVars, idxVars, voice, quiz>>

\* ------------------------------------------------------------ engine calls
ScoreValues == {-10, 14, 15, 39, 40, 74, 75, 100}
OptScores == {NoScore} \cup {<<v>> : v \in ScoreValues}
ScoreLists == UNION {[1..k -> OptScores] : k \in 0..MaxCand}
Nodes(scores) == [i \in 1..Len(scores) |-> [id |-> i, score |-> scores[i]]]

\* what the language model may answer: a grounded answer, the fallback
\* phrase for "m" verbatim, the one for "M" in other letter case inside a
\* longer text, the one for "P" after other text, and a cut-off phrase
LLMAnswers ==
    {<<"o", "k">>, <<"N", "f", "_", "m">>, <<"n", "F", "_", "M", "!">>,
     <<"o", "N", "f", "_", "P">>, <<"N", "f", "_">>}

\* what speech-to-text may return: silence, or a question
STTTexts == {<<" ">>, <<" ", "q", " ">>}

NoResult == [fn |-> None]

Requests ==
    [query : {<<"q">>}, subject_id : Subjects, stt_text : STTTexts,
     retrieved_nodes : {Nodes(sc) : sc \in ScoreLists},
     llm_answer : LLMAnswers]

ChatOff ==
    /\ req = [query |-> <<>>]
    /\ pc = "off"
    /\ result = NoResult

ChatInit ==
    /\ req \in Requests
    /\ pc = "idle"
    /\ result = NoResult

Chat ==
    /\ pc = "idle"
    /\ result' = chat(req.query, req.subject_id, req.retrieved_nodes,
                      req.llm_answer)
    /\ pc' = "done"
    /\ UNCHANGED <<req, memVars, idxVars, voice, quiz>>

EngineVoiceChat ==
    /\ pc = "idle"
    /\ result' = voice_chat(req.stt_text, req.subject_id,
                            req.retrieved_nodes, req.llm_answer)
    /\ pc' = "done"
    /\ UNCHANGED <<req, memVars, idxVars, voice, quiz>>

\* --------------------------------------------------------------- index calls
LineKinds == {<<>>, <<" ">>, <<"a">>, <<"L">>}
PagesOf(n) == UNION {[1..k -> LineKinds] : k \in 1..n}
Pdf == <<".", "p", "d", "f">>
FileNames == {<<"a", ".", "p", "d", "f">>, <<"b", ".", "P", "D", "F">>}
TextNames == {<<"a", ".", "t", "x", "t">>}
UploadNames == FileNames \cup {<<>>, <<"a", ".", "t", "x", "t">>}
UploadSubjects == Subjects \cup {<<"m", " ">>}
QueryScores == {10, 50}

\* what fitz makes of the bytes: a document of pages, or an error
PdfFiles ==
    {[empty |-> FALSE, opens |-> TRUE, doc |-> d] :
        d \in UNION {[1..k -> PagesOf(ibudget.pdf_lines)] :
                        k \in 0..ibudget.pages}}
    \cup {[empty |-> FALSE, opens |-> FALSE, doc |-> <<>>]}

\* no bytes at all: fitz may refuse them or open a document without pages
NoBytes == {[empty |-> TRUE, opens |-> o, doc |-> <<>>] : o \in BOOLEAN}

\* the file of an upload whose bytes the handler never read
Unread == [empty |-> FALSE, opens |-> FALSE, doc |-> <<>>]

\* how many of n nodes an upsert stores: all, or one less when the embedding
\* or the index service fails on the way
Written(n) == {n} \cup {k \in {n - 1} : k >= 0}

LastOp(op, file, filename, subject_id, status, code) ==
    [op |-> op, file |-> file, filename |-> filename,
     subject_id |-> subject_id, base |-> Len(collection), status |-> status,
     code |-> code, nodes |-> <<>>, result |-> NoResult]

IdxEmpty ==
    /\ collection = <<>>
    /\ ingests = 0
    /\ lastop = [op |-> "init", file |-> None, filename |-> <<>>,
                 subject_id |-> <<>>, base |-> 0, status |-> None,
                 code |-> 0, nodes |-> <<>>, result |-> NoResult]

IdxInit ==
    /\ ibudget \in IndexBudgets
    /\ IdxEmpty

IdxOff ==
    /\ ibudget = [ingests |-> 0, lines |-> 0, pdf_lines |-> 0, pages |-> 0]
    /\ IdxEmpty

IngestTxt ==
    /\ ingests < ibudget.ingests
    /\ \E lines \in PagesOf(ibudget.lines), file_name \in TextNames,
          subject_id \in Subjects :
          \E written \in
                Written(Len(page_nodes(lines, file_name, 1, subject_id))) :
             LET r == ingest_txt(collection, lines, file_name, subject_id, written)
             IN  /\ collection' = r.index
                 /\ lastop' = LastOp("ingest_txt",
                                     [empty |-> FALSE, opens |-> TRUE,
                                      doc |-> <<lines>>],
                                     file_name, subject_id, r.status, 0)
    /\ ingests' = ingests + 1
    /\ UNCHANGED <<ibudget, memVars, chatVars, voice, quiz>>

IngestPdf ==
    /\ ingests < ibudget.ingests
    /\ \E file \in PdfFiles \cup NoBytes, file_name \in FileNames,
          subject_id \in Subjects :
          \E written \in
                Written(Len(pdf_nodes(text_pages(file.doc, 0), file_name,
                                      subject_id))) :
             LET r == ingest_pdf(collection, file, file_name, subject_id, written)
             IN  /\ collection' = r.index
                 /\ lastop' = LastOp("ingest_pdf", file, file_name,
                                     subject_id, r.status, 0)
    /\ ingests' = ingests + 1
    /\ UNCHANGED <<ibudget, memVars, chatVars, voice, quiz>>

Upload ==
    /\ ingests < ibudget.ingests
    /\ \E file \in PdfFiles \cup NoBytes, filename \in UploadNames,
          subject_id \in UploadSubjects :
          \E written \in
                Written(Len(pdf_nodes(text_pages(file.doc, 0), filename,
                                      strip(subject_id)))) :
             LET r == upload_pdf(collection,
                                 [filename |-> filename, empty |-> file.empty,
                                  opens |-> file.opens, doc |-> file.doc],
                                 subject_id, written)
                 read == filename # <<>> /\ endswith(lower(filename), Pdf)
             IN  /\ collection' = r.index
                 /\ lastop' = LastOp("upload",
                                     IF read THEN file ELSE Unread,
                                     filename, subject_id, None, r.code)
    /\ ingests' = ingests + 1
    /\ UNCHANGED <<ibudget, memVars, chatVars, voice, quiz>>

Query ==
    /\ lastop.op # "query"
    /\ Len(collection) <= MaxQueried
    /\ \E subject_id \in Subjects, scores \in [DOMAIN collection -> QueryScores] :
          LET nodes == Retrieve(collection, subject_id, scores)
          IN  lastop' = [LastOp("query", None, <<>>, subject_id, "ok", 0)
                             EXCEPT !.nodes = nodes,
                                    !.result = chat(<<"q">>, subject_id,
                                                    nodes, <<"o", "k">>)]
    /\ UNCHANGED <<ibudget, collection, ingests, memVars, chatVars,
                   voice, quiz>>

\* ------------------------------------------------------ POST /voice/chat
\* `not transcript`, without strip()
blank_unstripped(transcript) == transcript = <<>>

\* `not transcript.strip()`
blank(transcript) == strip(transcript) = <<>>

\* base64.b64encode(tts_bytes).decode() of the speech made of an answer
audio_of(answer) == <<"#">> \o answer

VoiceChatResponse(local, audio_b64) ==
    [code |-> 200, transcript |-> local.transcript,
     answer |-> local.result.answer, citations |-> local.result.citations,
     confidence |-> local.result.confidence,
     session_id |-> local.session_id, audio_base64 |-> audio_b64]

HTTPException(status_code) == [code |-> status_code]

\* the local variables of a request that has not started; trace lists the
\* calls the request has made and spoke tells whether synthesize_speech
\* returned
NotStarted ==
    [pc |-> "start", subject_id |-> <<>>, form_session_id |-> <<>>,
     before |-> <<>>, session_id |-> 0, created |-> FALSE,
     transcript |-> <<>>, history |-> <<>>, result |-> NoResult,
     response |-> [code |-> 0], trace |-> <<>>, spoke |-> TRUE]

\* "Session: reuse or auto-create", up to `await audio.read()`.
\* form_session_id is <<>> for a blank field and <<id>> for the id in it.
resolve_session(local, S, form_subject_id, form_session_id, nid) ==
    LET subject_id == strip(form_subject_id)
        started == [local EXCEPT !.subject_id = subject_id,
                                 !.form_session_id = form_session_id,
                                 !.before = S]
    IN  IF form_session_id # <<>>
        THEN IF form_session_id[1] \notin DOMAIN get_subject_id(S, form_session_id[1]).mem
             THEN [local |-> [started EXCEPT
                                 !.pc = "done",
                                 !.response = HTTPException(404),
                                 !.trace = <<"get_subject_id">>],
                   mem |-> S, nid |-> nid]
             ELSE [local |-> [started EXCEPT
                                 !.pc = "read",
                                 !.session_id = form_session_id[1],
                                 !.trace = <<"get_subject_id">>],
                   mem |-> S, nid |-> nid]
        ELSE LET r == create_session(S, subject_id, nid, now)
             IN  [local |-> [started EXCEPT
                                !.pc = "read", !.session_id = r.ret,
                                !.created = TRUE,
                                !.trace = <<"create_session">>],
                  mem |-> r.mem, nid |-> nid + 1]

\* "1. Read uploaded audio", up to `await transcribe_audio(...)`
read_audio(local, empty) ==
    IF empty
    THEN [local EXCEPT !.pc = "done", !.response = HTTPException(400),
                       !.trace = Append(@, "read")]
    ELSE [local EXCEPT !.pc = "stt", !.trace = Append(@, "read")]

\* "2. STT" and the reading of the history, up to `await engine.chat(...)`.
\* stt is [ok, text]: transcribe_audio raised, or the text it returned.
transcribed(local, S, stt, t) ==
    IF ~stt.ok
    THEN [local |-> [local EXCEPT !.pc = "done",
                                  !.response = HTTPException(502),
                                  !.trace = Append(@, "stt")],
          mem |-> S]
    ELSE IF blank(stt.text)
    THEN [local |-> [local EXCEPT !.pc = "done",
                                  !.transcript = stt.text,
                                  !.response = HTTPException(422),
                                  !.trace = Append(@, "stt")],
          mem |-> S]
    ELSE LET r == get_history(S, local.session_id, t)
         IN  [local |-> [local EXCEPT !.pc = "chat",
                                      !.transcript = stt.text,
                                      !.history = r.ret,
                                      !.trace = @ \o <<"stt", "get_history">>],
              mem |-> r.mem]

\* "3. RAG chat", up to `await synthesize_speech(answer)`.
\* answered is [ok, result]: engine.chat raised, or what it returned.
chatted(local, answered) ==
    IF ~answered.ok
    THEN [local EXCEPT !.pc = "done", !.response = HTTPException(500),
                       !.trace = Append(@, "chat")]
    ELSE [local EXCEPT !.pc = "tts", !.result = answered.result,
                       !.trace = Append(@, "chat")]

\* a handler that gives up when synthesize_speech raises
spoken_or_failed(local, S, tts_ok, t) ==
    IF ~tts_ok
    THEN [local |-> [local EXCEPT !.pc = "done",
                                  !.response = HTTPException(502),
                                  !.trace = Append(@, "tts")],
          mem |-> S]
    ELSE [local |-> [local EXCEPT
                        !.pc = "done",
                        !.response = VoiceChatResponse(
                                         local, audio_of(local.result.answer)),
                        !.trace = @ \o <<"tts", "add_turn">>],
          mem |-> add_turn(S, local.session_id, local.transcript,
                           local.result.answer, t).mem]

\* "4. TTS" and "5. Store turn in memory", to the return
spoken(local, S, tts_ok, t) ==
    LET audio_b64 == IF tts_ok THEN audio_of(local.result.answer) ELSE <<>>
    IN  [local |-> [local EXCEPT
                       !.pc = "done",
                       !.response = VoiceChatResponse(local, audio_b64),
                       !.trace = @ \o <<"tts", "add_turn">>],
         mem |-> add_turn(S, local.session_id, local.transcript,
                          local.result.answer, t).mem]

\* the ids of the requests one behaviour follows
VoiceRequests == {1}

\* the memory a request may find: empty, or holding session 1 of subject "m"
\* with one turn, used a moment ago or longer ago than SESSION_TTL
OneTurn ==
    add_turn(create_session(<<>>, <<"m">>, 1, 0).mem, 1,
             <<"h">>, <<"i">>, 0).mem

VoiceMemories ==
    {[sessions |-> <<>>, now |-> 0, nextId |-> 1],
     [sessions |-> OneTurn, now |-> 1, nextId |-> 2],
     [sessions |-> OneTurn, now |-> SESSION_TTL + 1, nextId |-> 2]}

FormSessionIds == {<<>>, <<1>>, <<2>>}

\* what the services answer to a voice request
VoiceInputs ==
    [query : {<<"q">>}, subject_id : Subjects, stt_text : STTTexts,
     retrieved_nodes :
         {Nodes(sc) : sc \in UNION {[1..k -> OptScores] : k \in 0..VoiceCand}},
     llm_answer : LLMAnswers]

VoiceOff == voice = <<>>

VoiceInit ==
    /\ voice = [r \in VoiceRequests |-> NotStarted]
    /\ req \in VoiceInputs
    /\ pc = "idle"
    /\ result = NoResult

\* the memory as a request finds it
MemVoice ==
    /\ budget = [ids |-> 3, adds |-> 0, ticks |-> 0]
    /\ \E m \in VoiceMemories :
          /\ sessions = m.sessions
          /\ now = m.now
          /\ nextId = m.nextId
    /\ ticks = 0
    /\ call = [op |-> "init", sid |-> 0, found |-> FALSE, stale |-> FALSE]
    /\ ret = None
    /\ appended = <<>>
    /\ bound = <<>>
    /\ refreshed = <<>>
    /\ evicted = {}

memGhosts == <<budget, now, ticks, call, ret, appended, bound, refreshed, evicted>>

VStart(r) ==
    /\ voice[r].pc = "start"
    /\ pc = "idle"
    /\ \E padded \in BOOLEAN, form_session_id \in FormSessionIds :
          LET form_subject_id ==
                  IF padded THEN req.subject_id \o <<" ">>
                  ELSE req.subject_id
              s == resolve_session(voice[r], sessions, form_subject_id,
                                   form_session_id, nextId)
          IN  /\ voice' = [voice EXCEPT ![r] = s.local]
              /\ sessions' = s.mem
              /\ nextId' = s.nid
    /\ UNCHANGED <<memGhosts, chatVars, idxVars, quiz>>

VRead(r) ==
    /\ voice[r].pc = "read"
    /\ \E empty \in BOOLEAN :
          voice' = [voice EXCEPT ![r] = read_audio(voice[r], empty)]
    /\ UNCHANGED <<memVars, chatVars, idxVars, quiz>>

VStt(r) ==
    /\ voice[r].pc = "stt"
    /\ \E ok \in BOOLEAN :
          LET s == transcribed(voice[r], sessions,
                               [ok |-> ok, text |-> req.stt_text], now)
          IN  /\ voice' = [voice EXCEPT ![r] = s.local]
              /\ sessions' = s.mem
    /\ UNCHANGED <<memGhosts, nextId, chatVars, idxVars, quiz>>

VChat(r) ==
    /\ voice[r].pc = "chat"
    /\ \E ok \in BOOLEAN :
          voice' = [voice EXCEPT ![r] =
                       chatted(voice[r],
                               [ok |-> ok,
                                result |-> chat(voice[r].transcript,
                                                voice[r].subject_id,
                                                req.retrieved_nodes,
                                                req.llm_answer)])]
    /\ UNCHANGED <<memVars, chatVars, idxVars, quiz>>

VTts(r) ==
    /\ voice[r].pc = "tts"
    /\ \E tts_ok \in BOOLEAN :
          LET s == spoken(voice[r], sessions, tts_ok, now)
          IN  /\ voice' = [voice EXCEPT ![r] =
                               [s.local EXCEPT !.spoke = tts_ok]]
              /\ sessions' = s.mem
    /\ UNCHANGED <<memGhosts, nextId, chatVars, idxVars, quiz>>

\* requests in flight together: each runs from one await to the next, in
\* any order with the others
ConcurrentRequests == {1, 2, 3}

\* speech that transcribes to a question, a passage found, an answer given
ConcurrentInputs ==
    [query : {<<"q">>}, subject_id : Subjects, stt_text : {<<" ", "q", " ">>},
     retrieved_nodes : {Nodes(<< <<50>> >>)}, llm_answer : {<<"o", "k">>}]

ConcurrentInit ==
    /\ voice = [r \in ConcurrentRequests |-> NotStarted]
    /\ req \in ConcurrentInputs
    /\ pc = "idle"
    /\ result = NoResult

\* RAGEngine.voice_chat on the inputs of the request, in place of the handler
VEngine ==
    /\ \A r \in VoiceRequests : voice[r].pc = "start"
    /\ EngineVoiceChat

\* ------------------------------------------------- _parse_json_response
\* A model response is a text over the blank, the newline, the form feed,
\* the brackets of JSON, the backtick (written "~") and the letters "j" (the
\* tag json of a fence) and "x" (anything else).
Fence == <<"~", "~", "~">>

\* text.startswith(prefix)
startswith(text, prefix) ==
    Len(text) >= Len(prefix) /\ SubSeq(text, 1, Len(prefix)) = prefix

\* text.split("\n", 1)[1]: what follows the first newline
after_first_newline(text) ==
    LET n == CHOOSE i \in 1..Len(text) :
                 text[i] = "\n" /\ \A j \in 1..(i - 1) : text[j] # "\n"
    IN  SubSeq(text, n + 1, Len(text))

\* the white space json.loads skips between tokens
json_space(c) == c \in {" ", "\n"}

\* the tokens of a text, every character but white space being one
tokens(text) == SelectSeq(text, LAMBDA c : ~json_space(c))

\* the members an object may hold: "M" is written for "mcqs": [{}], a
\* question without its fields, and "Q" for "mcqs": [{"question": ...,
\* "options": [...], "correct_answer": ...}], a complete question
Members == {"M", "Q"}

\* the place after the JSON value that starts at token i, 0 when there is
\* none; with these characters a value is {} or {member} or [] or [value]
RECURSIVE value_end(_, _)
value_end(t, i) ==
    IF i + 1 > Len(t) THEN 0
    ELSE IF t[i] = "{" THEN
        IF t[i + 1] = "}" THEN i + 2
        ELSE IF t[i + 1] \in Members /\ i + 2 <= Len(t) /\ t[i + 2] = "}"
        THEN i + 3
        ELSE 0
    ELSE IF t[i] = "[" THEN
        IF t[i + 1] = "]" THEN i + 2
        ELSE LET e == value_end(t, i + 1)
             IN  IF e # 0 /\ e <= Len(t) /\ t[e] = "]" THEN e + 1 ELSE 0
    ELSE 0

\* json.loads(text): the value, written without white space, or
\* JSONDecodeError
json_loads(text) ==
    LET t == tokens(text)
    IN  IF value_end(t, 1) = Len(t) + 1
        THEN [ok |-> TRUE, value |-> t]
        ELSE [ok |-> FALSE, value |-> <<>>]

\* the body of `if text.startswith("```"):`
unfenced(text) ==
    LET opened == IF Contains(<<"\n">>, text)
                  THEN after_first_newline(text)
                  ELSE SubSeq(text, 4, Len(text))
    IN  IF endswith(opened, Fence)
        THEN rstrip(SubSeq(opened, 1, Len(opened) - 3))
        ELSE opened

parse_json_response(raw) ==
    LET stripped == strip(raw)
        text == IF startswith(stripped, Fence) THEN unfenced(stripped)
                ELSE stripped
        loaded == json_loads(text)
    IN  IF loaded.ok
        THEN [json |-> TRUE, value |-> loaded.value]
        ELSE [json |-> FALSE, mcqs |-> <<>>, short_answer |-> <<>>,
              raw_response |-> raw]

TextChars == {" ", "\n", "\f", "{", "}", "[", "]", "x"}
Texts == UNION {[1..k -> TextChars] : k \in 0..MaxText}

\* the opening fence lines: ``` and ```json
Openings == {Fence, Fence \o <<"j">>}

QuizOff == quiz = [pc |-> "off"]

QuizInit ==
    \E text \in Texts :
        quiz = [pc |-> "idle", text |-> text, fenced |-> FALSE,
                raw |-> <<>>, out |-> [json |-> FALSE]]

\* the response handed over as it is
ParsePlain ==
    /\ quiz.pc = "idle"
    /\ quiz' = [quiz EXCEPT !.pc = "done", !.raw = quiz.text,
                            !.out = parse_json_response(quiz.text)]
    /\ UNCHANGED <<memVars, chatVars, idxVars, voice>>

\* the response between an opening fence line and a closing ``` line, with
\* or without a newline after it
ParseFenced ==
    /\ quiz.pc = "idle"
    /\ \E opening \in Openings, last \in {<<>>, <<"\n">>} :
          LET raw == opening \o <<"\n">> \o quiz.text \o <<"\n">> \o Fence
                         \o last
          IN  quiz' = [quiz EXCEPT !.pc = "done", !.fenced = TRUE,
                                   !.raw = raw,
                                   !.out = parse_json_response(raw)]
    /\ UNCHANGED <<memVars, chatVars, idxVars, voice>>

\* ----------------------------------------------------------- study mode
\* Optional[str]: <<>> is None and <<v>> the string v
Absent == <<>>

\* isinstance(value, dict) of a value json.loads returned
is_dict(value) == value[1] = "{"

\* result.get("mcqs", []) of a parsed object: the questions, each told by
\* whether it has the fields MCQ requires
mcqs_of(value) ==
    IF Len(value) = 3
    THEN <<[complete |-> value[2] = "Q"]>>
    ELSE <<>>

\* {"subject_id": subject_id, **questions}: ** takes a mapping only
merged(subject_id, questions) ==
    IF ~questions.json
    THEN [status |-> "ok",
          result |-> [subject_id |-> subject_id, mcqs |-> questions.mcqs,
                      short_answer |-> questions.short_answer,
                      error |-> Absent,
                      raw_response |-> <<questions.raw_response>>]]
    ELSE IF is_dict(questions.value)
    THEN [status |-> "ok",
          result |-> [subject_id |-> subject_id,
                      mcqs |-> mcqs_of(questions.value),
                      short_answer |-> <<>>, error |-> Absent,
                      raw_response |-> Absent]]
    ELSE [status |-> "TypeError", result |-> [subject_id |-> subject_id]]

\* scroll_filter=Filter(must=[FieldCondition(key="subject_id", ...)])
with_subject(index, subject_id) ==
    SelectSeq(index, LAMBDA point : point.subject_id = subject_id)

\* index is the collection, response_text what llm_mini.acomplete returns
generate_study_questions(index, subject_id, response_text) ==
    LET points == scroll(with_subject(index, subject_id), 100)
    IN  IF points = <<>>
        THEN [status |-> "ok",
              result |-> [subject_id |-> subject_id, mcqs |-> <<>>,
                          short_answer |-> <<>>,
                          error |-> <<"No notes found">>,
                          raw_response |-> Absent]]
        ELSE merged(subject_id, parse_json_response(response_text))

\* [MCQ(**m) for m in ...]: pydantic raises ValidationError for a question
\* that lacks a required field
all_valid(items) == \A i \in 1..Len(items) : items[i].complete

\* POST /study_mode: the status and the body of the response
study_mode(index, body_subject_id, response_text) ==
    LET g == generate_study_questions(index, strip(body_subject_id),
                                      response_text)
    IN  IF g.status # "ok"
        THEN [code |-> 500, body |-> [subject_id |-> strip(body_subject_id)]]
        ELSE IF ~all_valid(g.result.mcqs) \/ ~all_valid(g.result.short_answer)
        THEN [code |-> 500, body |-> [subject_id |-> g.result.subject_id]]
        ELSE [code |-> 200, body |-> g.result]

StudyChars == TextChars \cup Members
StudyTexts == UNION {[1..k -> StudyChars] : k \in 0..MaxText}

\* the notes stored when a quiz is asked for: none, or one chunk of "m"
StudyIndexes ==
    {<<>>,
     <<[file_name |-> <<"a", ".", "p", "d", "f">>, page_number |-> 1,
        subject_id |-> <<"m">>, line_start |-> 1, line_end |-> 1,
        piece |-> 1]>>}

StudyInit ==
    \E text \in StudyTexts, index \in StudyIndexes,
       subject_id \in UploadSubjects :
        quiz = [pc |-> "ready", text |-> text, index |-> index,
                subject_id |-> subject_id,
                engine |-> [status |-> None], response |-> [code |-> 0]]

\* the engine called on its own
Generate ==
    /\ quiz.pc = "ready"
    /\ quiz' = [quiz EXCEPT
                   !.pc = "generated",
                   !.engine = generate_study_questions(
                                  quiz.index, strip(quiz.subject_id),
                                  quiz.text)]
    /\ UNCHANGED <<memVars, chatVars, idxVars, voice>>

StudyMode ==
    /\ quiz.pc = "ready"
    /\ quiz' = [quiz EXCEPT
                   !.pc = "answered",
                   !.response = study_mode(quiz.index, quiz.subject_id,
                                           quiz.text)]
    /\ UNCHANGED <<memVars, chatVars, idxVars, voice>>

\* --------------------------------------------------------------- prompt
\* Roles are written with their first letter: "u" is user, "a" assistant.
UpperChar(c) ==
    CASE c = "u" -> "U"
      [] c = "a" -> "A"
      [] c = "x" -> "X"
      [] OTHER -> c

\* str.upper()
upper(text) == [i \in 1..Len(text) |-> UpperChar(text[i])]

\* history[:6], the oldest messages
recent_oldest(history) ==
    SubSeq(history, 1, IF Len(history) < 6 THEN Len(history) ELSE 6)

\* history[-6:]
recent(history) == LastN(history, 6)

\* the loop `for msg in history[-6:]`, each message added as "\nROLE: content"
RECURSIVE history_lines(_, _)
history_lines(msgs, history_block) ==
    IF msgs = <<>> THEN history_block
    ELSE history_lines(Tail(msgs),
                       history_block \o <<"\n">> \o upper(msgs[1].role)
                           \o <<":", " ">> \o msgs[1].content)

\* history is None (Absent), or a list
history_block(history) ==
    IF history # Absent /\ history[1] # <<>>
    THEN history_lines(recent(history[1]), <<>>)
    ELSE <<>>

\* "Previous conversation:", and the system prompt with its subject
Previous == <<"P", "c", ":">>
system_prompt(subject_id) == <<"S", "_">> \o subject_id

ChatMessage(role, content) == [role |-> role, content |-> content]

\* the list handed to llm.achat; nothing is handed over when no candidate
\* passes the gate
messages(query, subject_id, retrieved_nodes, history) ==
    LET valid_nodes == SimilarityGate(retrieved_nodes, SIMILARITY_THRESHOLD)
        block == history_block(history)
    IN  IF nothing_valid(retrieved_nodes, valid_nodes)
        THEN [llm_called |-> FALSE, messages |-> <<>>]
        ELSE [llm_called |-> TRUE,
              messages |->
                  <<ChatMessage("SYSTEM", system_prompt(subject_id))>>
                  \o (IF block # <<>>
                      THEN <<ChatMessage("USER", Previous \o block)>>
                      ELSE <<>>)
                  \o <<ChatMessage("USER", query)>>]

HistoryMessages ==
    {[role |-> <<"u">>, content |-> <<"x">>],
     [role |-> <<"a">>, content |-> <<"y">>],
     [role |-> <<"a">>, content |-> <<>>]}

Histories == UNION {[1..k -> HistoryMessages] : k \in 0..MaxHistory}

PromptInit ==
    /\ req \in [query : {<<"q">>}, subject_id : Subjects,
                retrieved_nodes : {Nodes(<<>>), Nodes(<< <<50>> >>)},
                history : Histories]
    /\ pc = "idle"
    /\ result = NoResult

\* POST /chat up to the call of the language model: the handler passes
\* `body.history or None`
ChatPrompt ==
    /\ pc = "idle"
    /\ result' = messages(req.query, req.subject_id, req.retrieved_nodes,
                          IF req.history = <<>> THEN Absent
                          ELSE <<req.history>>)
    /\ pc' = "prompted"
    /\ UNCHANGED <<req, memVars, idxVars, voice, quiz>>

\* -------------------------------------------------------------- listing
\* the chunks of a document of n pages with a paragraph each
Stored(n, file_name, subject_id) ==
    [i \in 1..n |->
        [file_name |-> file_name, page_number |-> i,
         subject_id |-> subject_id, line_start |-> 1, line_end |-> 1,
         piece |-> 1]]

\* how many chunks the first document of a collection has: none, one, and
\* as many as one scroll of get_files_for_subject and of get_subjects returns
HeadSizes == {0, 1, 500, 1000}

\* a large document, then up to MaxTail chunks of a second and a third one
ListingIndexes ==
    {Stored(n, f, s) \o t :
        n \in HeadSizes, f \in FileNames, s \in Subjects,
        t \in UNION {[1..k -> {Stored(1, g, u)[1] :
                                  g \in FileNames, u \in Subjects}] :
                        k \in 0..MaxTail}}

ListingInit ==
    /\ ibudget = [ingests |-> 0, lines |-> 0, pdf_lines |-> 0, pages |-> 0]
    /\ collection \in ListingIndexes
    /\ ingests = 0
    /\ lastop = [op |-> "init", file |-> None, filename |-> <<>>,
                 subject_id |-> <<>>, base |-> 0, status |-> None,
                 code |-> 0, nodes |-> <<>>, result |-> NoResult]

GetSubjects ==
    /\ lastop.op = "init"
    /\ lastop' = [LastOp("get_subjects", None, <<>>, <<>>, "ok", 0)
                     EXCEPT !.result = [fn |-> "get_subjects",
                                        ret |-> get_subjects(collection)]]
    /\ UNCHANGED <<ibudget, collection, ingests, memVars, chatVars,
                   voice, quiz>>

GetFilesForSubject ==
    /\ lastop.op = "init"
    /\ \E subject_id \in Subjects :
          lastop' = [LastOp("get_files_for_subject", None, <<>>, subject_id,
                            "ok", 0)
                        EXCEPT !.result =
                            [fn |-> "get_files_for_subject",
                             ret |-> get_files_for_subject(collection,
                                                           subject_id)]]
    /\ UNCHANGED <<ibudget, collection, ingests, memVars, chatVars,
                   voice, quiz>>

vars == <<memVars, chatVars, idxVars, voice, quiz>>

Init == MemInit /\ ChatOff /\ IdxOff /\ VoiceOff /\ QuizOff

Next ==
    \/ Tick
    \/ CreateSession
    \/ GetHistory
    \/ AddTurn
    \/ GetSubjectId
    \/ DeleteSession

Spec == Init /\ [][Next]_vars

InitChat == MemOff /\ ChatInit /\ IdxOff /\ VoiceOff /\ QuizOff

InitIndex == MemOff /\ ChatOff /\ IdxInit /\ VoiceOff /\ QuizOff

NextIndex ==
    \/ IngestTxt
    \/ IngestPdf
    \/ Upload
    \/ Query

SpecIndex == InitIndex /\ [][NextIndex]_vars

InitVoice == MemVoice /\ IdxOff /\ VoiceInit /\ QuizOff

NextVoice ==
    \/ \E r \in VoiceRequests : VStart(r)
    \/ \E r \in VoiceRequests : VRead(r)
    \/ \E r \in VoiceRequests : VStt(r)
    \/ \E r \in VoiceRequests : VChat(r)
    \/ \E r \in VoiceRequests : VTts(r)
    \/ VEngine

SpecVoice == InitVoice /\ [][NextVoice]_vars

InitConcurrent == MemVoice /\ IdxOff /\ ConcurrentInit /\ QuizOff

NextConcurrent ==
    \/ \E r \in ConcurrentRequests : VStart(r)
    \/ \E r \in ConcurrentRequests : VRead(r)
    \/ \E r \in ConcurrentRequests : VStt(r)
    \/ \E r \in ConcurrentRequests : VChat(r)
    \/ \E r \in ConcurrentRequests : VTts(r)

SpecConcurrent == InitConcurrent /\ [][NextConcurrent]_vars

InitQuiz == MemOff /\ ChatOff /\ IdxOff /\ VoiceOff /\ QuizInit

NextQuiz ==
    \/ ParsePlain
    \/ ParseFenced

SpecQuiz == InitQuiz /\ [][NextQuiz]_vars

InitPrompt == MemOff /\ PromptInit /\ IdxOff /\ VoiceOff /\ QuizOff

NextPrompt == ChatPrompt

SpecPrompt == InitPrompt /\ [][NextPrompt]_vars

InitListing == MemOff /\ ChatOff /\ ListingInit /\ VoiceOff /\ QuizOff

NextListing ==
    \/ GetSubjects
    \/ GetFilesForSubject

SpecListing == InitListing /\ [][NextListing]_vars

InitStudy == MemOff /\ ChatOff /\ IdxOff /\ VoiceOff /\ StudyInit

NextStudy ==
    \/ Generate
    \/ StudyMode

SpecStudy == InitStudy /\ [][NextStudy]_vars

NextChat ==
    \/ Chat
    \/ EngineVoiceChat

SpecChat == InitChat /\ [][NextChat]_vars

TypeOK ==
    /\ DOMAIN sessions \subseteq SessionIds
    /\ \A s \in DOMAIN sessions : sessions[s].last_active <= now
\* ------------------------------------------------------------------ claims

\* C1: after N > MAX_TURNS calls of add_turn on a stored session, get_history
\* returns exactly the last 2*MAX_TURNS appended messages in their original
\* order; after 12 turns the result has 20 messages and starts with the
\* user message of the 3rd turn.
SessionTrimming ==
    (call.op = "get_history" /\ call.found) =>
        LET log == appended[call.sid]
        IN  /\ Len(log) > 2 * MAX_TURNS =>
                  /\ Len(ret) = 2 * MAX_TURNS
                  /\ \A i \in 1..(2 * MAX_TURNS) :
                        ret[i] = log[Len(log) - 2 * MAX_TURNS + i]
            /\ Len(log) = 24 => ret[1] = Message("user", Question(3))

SessionTrimmingWitness ==
    /\ call.op = "get_history"
    /\ call.found
    /\ Len(appended[call.sid]) = 24
    /\ Len(ret) = 20
    /\ ret[1] = Message("user", Question(3))
    /\ ret[20] = Message("assistant", Answer(12))

\* C2: in every reachable state every stored session's history has at most
\* 2*MAX_TURNS messages.
HistoryBounded ==
    \A s \in DOMAIN sessions : Len(sessions[s].history) <= 2 * MAX_TURNS

HistoryBoundedWitness ==
    \E s \in DOMAIN sessions :
        /\ Len(sessions[s].history) = 2 * MAX_TURNS
        /\ Len(appended[s]) > 2 * MAX_TURNS

\* C3: after the garbage-collection pass of create_session no session older
\* than SESSION_TTL is stored, and a session the pass removed stays absent:
\* get_history returns the empty list and get_subject_id returns None for it.
SessionExpiry ==
    /\ call.op = "create_session" =>
          \A s \in DOMAIN sessions :
              ~(now - sessions[s].last_active > SESSION_TTL)
    /\ evicted \cap DOMAIN sessions = {}
    /\ (call.op = "get_history" /\ call.sid \in evicted) => ret = <<>>
    /\ (call.op = "get_subject_id" /\ call.sid \in evicted) => ret = None

SessionExpiryWitness ==
    /\ call.op = "get_history"
    /\ call.sid \in evicted
    /\ ret = <<>>

\* C4 (as stated): get_history returns the empty list whenever the session id
\* is unknown or the session is expired, whether or not a garbage-collection
\* pass has run since.
GetHistoryEmptyIfExpired ==
    (call.op = "get_history" /\ (~call.found \/ call.stale)) => ret = <<>>

\* C4 (amended): get_history returns the empty list whenever the session id
\* is not in the store; a session that is expired but still stored has its
\* history returned.
GetHistoryEmptyIfAbsent ==
    call.op = "get_history" =>
        /\ ~call.found => ret = <<>>
        /\ call.found => ret = sessions[call.sid].history

GetHistoryEmptyIfAbsentWitness ==
    /\ call.op = "get_history"
    /\ ~call.found
    /\ call.sid \in DOMAIN bound
    /\ ret = <<>>

\* C5 (as stated): get_history, add_turn and get_subject_id on a stored
\* session each set its last_active to the current time.
EveryAccessRefreshes ==
    (call.op \in {"get_history", "add_turn", "get_subject_id"} /\ call.found)
        => sessions[call.sid].last_active = now

\* C5 (amended): get_history and add_turn on a stored session set its
\* last_active to the current time and get_subject_id leaves the store as it
\* is, so garbage collection removes a session only when more than
\* SESSION_TTL has passed since it was created or last passed to get_history
\* or add_turn.
ReadWriteRefreshes ==
    /\ [](    (call.op \in {"get_history", "add_turn"} /\ call.found)
           => sessions[call.sid].last_active = now)
    /\ [][call'.op = "get_subject_id" => sessions' = sessions]_vars
    /\ [][call'.op = "create_session" =>
             \A s \in DOMAIN sessions :
                 s \notin DOMAIN sessions' =>
                     now - refreshed[s] > SESSION_TTL]_vars

ReadWriteRefreshesWitness ==
    /\ call.op = "create_session"
    /\ \E s \in DOMAIN sessions :
          /\ s # call.sid
          /\ now - bound[s].created > SESSION_TTL
          /\ refreshed[s] > bound[s].created

\* C6: add_turn with a session id that is not stored is a no-op: no session
\* is created and every stored session is unchanged.
AddTurnUnknownNoOp ==
    [][(call'.op = "add_turn" /\ ~call'.found) => sessions' = sessions]_vars

AddTurnUnknownNoOpWitness ==
    /\ call.op = "add_turn"
    /\ ~call.found
    /\ DOMAIN sessions # {}

\* C7: a session's subject_id is the one create_session was given, for as
\* long as the session is stored, and get_subject_id returns it.
SubjectBound ==
    /\ \A s \in DOMAIN sessions :
          sessions[s].subject_id = bound[s].subject_id
    /\ (call.op = "get_subject_id" /\ call.found) =>
          ret = bound[call.sid].subject_id
    /\ call.op = "create_session" => (ret = call.sid /\ ret \in DOMAIN sessions)

SubjectBoundWitness ==
    /\ call.op = "get_subject_id"
    /\ call.found
    /\ Len(sessions[call.sid].history) > 0
    /\ sessions[call.sid].last_active > bound[call.sid].created
    /\ ret = bound[call.sid].subject_id
\* the places, in the retriever's answer, of the candidates whose score is
\* present and at least t
Qualifying(t) ==
    {i \in 1..Len(req.retrieved_nodes) :
        /\ req.retrieved_nodes[i].score # NoScore
        /\ req.retrieved_nodes[i].score[1] >= t}

Gated == pc = "done" /\ result.status = "ok"

\* C8: the similarity gate retains exactly the retrieved candidates whose
\* score is present and >= SIMILARITY_THRESHOLD, in their retrieved order;
\* a candidate below the threshold or without a score is discarded.
GateRetains ==
    Gated =>
        LET v == result.valid_nodes
        IN  /\ {v[j].id : j \in 1..Len(v)} = Qualifying(SIMILARITY_THRESHOLD)
            /\ \A j \in 1..Len(v) : v[j] = req.retrieved_nodes[v[j].id]
            /\ \A j, k \in 1..Len(v) : j < k => v[j].id < v[k].id

GateRetainsWitness ==
    /\ Gated
    /\ Len(result.valid_nodes) = 2
    /\ \E n \in 1..Len(result.valid_nodes) :
          result.valid_nodes[n].score = <<SIMILARITY_THRESHOLD>>
    /\ \E i \in 1..Len(req.retrieved_nodes) :
          req.retrieved_nodes[i].score = NoScore
    /\ Len(req.retrieved_nodes) = 3

\* C9: for the same retrieved candidates and thresholds t1 < t2 the gate
\* retains at t1 a superset of what it retains at t2.
Thresholds == {0, SIMILARITY_THRESHOLD, 16, 40, 75}

GateIds(t) ==
    LET v == SimilarityGate(req.retrieved_nodes, t)
    IN  {v[j].id : j \in 1..Len(v)}

GateMonotone ==
    pc # "off" =>
        \A t1, t2 \in Thresholds : t1 < t2 => GateIds(t2) \subseteq GateIds(t1)

GateMonotoneWitness ==
    /\ pc = "done"
    /\ result.status = "ok"
    /\ GateIds(40) # {}
    /\ GateIds(40) # GateIds(SIMILARITY_THRESHOLD)
    /\ GateIds(0) # GateIds(SIMILARITY_THRESHOLD)

RECURSIVE SumOver(_)
SumOver(ids) ==
    IF ids = {} THEN 0
    ELSE LET i == CHOOSE x \in ids : TRUE
         IN  req.retrieved_nodes[i].score[1] + SumOver(ids \ {i})

Sentinel == <<"N", "f", "_">> \o req.subject_id

Canonical ==
    /\ result.answer = Sentinel
    /\ result.citations = <<>>
    /\ result.confidence = "Low"

\* C11: when no retrieved candidate passes the gate (also when nothing was
\* retrieved), chat returns the sentinel answer, no citation and confidence
\* Low, and the language model is not invoked.
NotFoundShortCircuit ==
    (pc = "done" /\ result.fn = "chat"
                 /\ Qualifying(SIMILARITY_THRESHOLD) = {}) =>
        (Canonical /\ ~result.llm_called)

NotFoundShortCircuitWitness ==
    /\ pc = "done"
    /\ result.fn = "chat"
    /\ Len(req.retrieved_nodes) = 2
    /\ req.retrieved_nodes[1].score = <<14>>
    /\ req.retrieved_nodes[2].score = NoScore
    /\ Canonical
    /\ ~result.llm_called

\* the fallback phrase occurs in the model's output, letter case aside
MentionsSentinel ==
    \E i \in 0..(Len(req.llm_answer) - Len(Sentinel)) :
        \A k \in 1..Len(Sentinel) :
            LowerChar(req.llm_answer[i + k]) = LowerChar(Sentinel[k])

\* C12: if the language model's output contains the fallback phrase in any
\* letter case, chat returns the sentinel answer, no citation and confidence
\* Low, however many candidates passed the gate and whatever their scores.
FallbackDowngrade ==
    (pc = "done" /\ result.fn = "chat" /\ result.llm_called
                 /\ MentionsSentinel) => Canonical

FallbackDowngradeWitness ==
    /\ pc = "done"
    /\ result.fn = "chat"
    /\ result.llm_called
    /\ MentionsSentinel
    /\ ~Contains(Sentinel, req.llm_answer)
    /\ Len(result.valid_nodes) = 3
    /\ SumScores(result.valid_nodes) >= 75 * 3
    /\ Canonical
\* ------------------------------------------------------- claims on the index
\* the chunk a retrieved node was read from
PointOf(node) == collection[node.point]

\* C13: every candidate that passes into the context of a query for subject
\* A, and every citation of its answer, comes from a stored chunk whose
\* subject_id is A, whatever documents of whatever subjects are stored.
SubjectIsolation ==
    lastop.op = "query" =>
        /\ \A i \in 1..Len(lastop.result.valid_nodes) :
              PointOf(lastop.result.valid_nodes[i]).subject_id
                  = lastop.subject_id
        /\ \A i \in 1..Len(lastop.result.citations) :
              LET c == lastop.result.citations[i]
              IN  /\ c.subject_id = lastop.subject_id
                  /\ PointOf(lastop.nodes[c.node]).subject_id
                         = lastop.subject_id

SubjectIsolationWitness ==
    /\ lastop.op = "query"
    /\ lastop.subject_id = <<"m">>
    /\ \E i, j \in 1..Len(collection) :
          /\ collection[i].subject_id = <<"P">>
          /\ collection[j].subject_id = <<"m">>
          /\ i < j
    /\ lastop.result.citations # <<>>

\* the last call ingested a whole document
Ingested ==
    /\ lastop.op \in {"ingest_txt", "ingest_pdf", "upload"}
    /\ lastop.status = "ok" \/ lastop.code = 200

\* the chunks the last call emitted for page p
Emitted(p) ==
    {i \in (lastop.base + 1)..Len(collection) :
        collection[i].page_number = p}

Covers(i, l) == collection[i].line_start <= l /\ l <= collection[i].line_end

NonBlank(p, l) == strip(lastop.file.doc[p][l]) # <<>>

\* C14 as stated: on each page every non-blank line lies in the range of
\* exactly one emitted chunk, a blank line in none, and no chunk has
\* line_end < line_start.
ChunkCoverage ==
    Ingested =>
        \A p \in 1..Len(lastop.file.doc) :
            /\ \A l \in 1..Len(lastop.file.doc[p]) :
                  Cardinality({i \in Emitted(p) : Covers(i, l)})
                      = IF NonBlank(p, l) THEN 1 ELSE 0
            /\ \A i \in Emitted(p) :
                  collection[i].line_end >= collection[i].line_start

\* the distinct line ranges of the chunks emitted for page p
Ranges(p) ==
    {<<collection[i].line_start, collection[i].line_end>> : i \in Emitted(p)}

\* C14: on each page every non-blank line lies in exactly one of the
\* distinct line ranges of the emitted chunks (the chunks split from one
\* paragraph share its range), a blank line in none, and no chunk has
\* line_end < line_start.
ChunkRangeCoverage ==
    Ingested =>
        \A p \in 1..Len(lastop.file.doc) :
            /\ \A l \in 1..Len(lastop.file.doc[p]) :
                  Cardinality({r \in Ranges(p) : r[1] <= l /\ l <= r[2]})
                      = IF NonBlank(p, l) THEN 1 ELSE 0
            /\ \A r \in Ranges(p) : r[2] >= r[1]

ChunkRangeCoverageWitness ==
    /\ lastop.op = "ingest_txt"
    /\ lastop.status = "ok"
    /\ lastop.file.doc = << << <<"L">>, <<" ">>, <<"a">> >> >>
    /\ Cardinality(Emitted(1)) = 3
    /\ Ranges(1) = {<<1, 1>>, <<3, 3>>}

\* the document handed to the last call has no extractable text
NoExtractableText(file) ==
    file.empty \/ \A p \in 1..Len(file.doc) : no_text(file.doc[p])

NoTextTxtWitness ==
    /\ lastop.op = "ingest_txt"
    /\ lastop.file.doc = << << <<" ">>, <<>> >> >>
    /\ lastop.status = "ValueError"
    /\ lastop.base = Len(collection)

\* an upload the client got wrong: a file name that does not end in .pdf,
\* no bytes, or a PDF without extractable text
InputError ==
    \/ lastop.filename = <<>>
    \/ ~endswith(lower(lastop.filename), Pdf)
    \/ NoExtractableText(lastop.file)

\* C16 as stated: every input error on the upload path is answered with a
\* 4xx status, never with a 5xx one.
UploadInputErrorsAre4xx ==
    (lastop.op = "upload" /\ InputError) =>
        (lastop.code >= 400 /\ lastop.code < 500)

\* the upload the claim fails on: a .pdf file name and no bytes
UploadEmptyFile ==
    /\ lastop.op = "upload"
    /\ endswith(lower(lastop.filename), Pdf)
    /\ lastop.file.empty
    /\ lastop.code = 500
\* ------------------------------------------------ claims on the voice path
Made(local, step) == \E i \in 1..Len(local.trace) : local.trace[i] = step

\* no stored history differs from what it was when the request came in,
\* and a session opened since has none
HistoriesKept(local) ==
    \A s \in DOMAIN sessions :
        sessions[s].history
            = IF s \in DOMAIN local.before THEN local.before[s].history
              ELSE <<>>

\* C17: when speech-to-text returns a transcript that is blank after
\* trimming, the /voice/chat request ends with the input error 422 without
\* reading the history, calling chat (retrieval and language model) or
\* text-to-speech, or adding a turn; RAGEngine.voice_chat raises ValueError
\* before it retrieves, calls the language model or synthesises speech.
BlankTranscriptStops ==
    /\ \A r \in DOMAIN voice :
          (/\ voice[r].pc = "done"
           /\ Made(voice[r], "stt")
           /\ voice[r].response.code # 502
           /\ strip(req.stt_text) = <<>>) =>
              /\ voice[r].response.code = 422
              /\ ~Made(voice[r], "get_history")
              /\ ~Made(voice[r], "chat")
              /\ ~Made(voice[r], "tts")
              /\ ~Made(voice[r], "add_turn")
              /\ voice[r].result = NoResult
              /\ HistoriesKept(voice[r])
    /\ (pc = "done" /\ result.fn = "voice_chat"
                    /\ strip(req.stt_text) = <<>>) =>
          /\ result.status = "ValueError"
          /\ result.valid_nodes = <<>>
          /\ ~result.llm_called
          /\ result.tts_input = None

BlankTranscriptStopsWitness ==
    /\ voice[1].pc = "done"
    /\ req.stt_text = <<" ">>
    /\ voice[1].form_session_id = <<1>>
    /\ voice[1].trace = <<"get_subject_id", "read", "stt">>
    /\ voice[1].response.code = 422
    /\ sessions = OneTurn

\* the turn of a request as add_turn stores it
TurnOf(local) ==
    <<Message("user", local.transcript),
      Message("assistant", local.result.answer)>>

\* C18: when synthesize_speech fails after chat has answered, the request
\* still returns 200 with the transcript and the answer, citations and
\* confidence of the chat result, an empty audio payload, and its turn is the
\* last one of the session's history.
TtsFailureNonFatal ==
    \A r \in DOMAIN voice :
        (voice[r].pc = "done" /\ Made(voice[r], "tts") /\ ~voice[r].spoke) =>
            LET local == voice[r]
                response == local.response
            IN  /\ response.code = 200
                /\ response.transcript = local.transcript
                /\ response.answer = local.result.answer
                /\ response.citations = local.result.citations
                /\ response.confidence = local.result.confidence
                /\ response.session_id = local.session_id
                /\ response.audio_base64 = <<>>
                /\ local.result
                       = chat(local.transcript, local.subject_id,
                              req.retrieved_nodes, req.llm_answer)
                /\ local.session_id \in DOMAIN sessions
                /\ LastN(sessions[local.session_id].history, 2)
                       = TurnOf(local)
                /\ Len(sessions[local.session_id].history)
                       = Len(local.history) + 2

TtsFailureNonFatalWitness ==
    /\ voice[1].pc = "done"
    /\ ~voice[1].spoke
    /\ voice[1].response.code = 200
    /\ voice[1].response.audio_base64 = <<>>
    /\ voice[1].response.citations # <<>>
    /\ voice[1].session_id = 1
    /\ Len(sessions[1].history) = 4

\* C19 as stated: a voice request whose transcript is q returns the answer,
\* citations and confidence of chat(q, subject_id, history) on the same index
\* state and language-model output, through the /voice/chat handler as well
\* as through RAGEngine.voice_chat.
VoiceSameAsChat ==
    /\ \A r \in DOMAIN voice :
          voice[r].response.code = 200 =>
              LET c == chat(voice[r].transcript, voice[r].subject_id,
                            req.retrieved_nodes, req.llm_answer)
              IN  /\ voice[r].response.answer = c.answer
                  /\ voice[r].response.citations = c.citations
                  /\ voice[r].response.confidence = c.confidence
    /\ (pc = "done" /\ result.fn = "voice_chat" /\ result.status = "ok") =>
          LET c == chat(result.transcript, req.subject_id,
                        req.retrieved_nodes, req.llm_answer)
          IN  /\ result.answer = c.answer
              /\ result.citations = c.citations
              /\ result.confidence = c.confidence

\* RAGEngine.voice_chat passes on an answer that says "not found", with the
\* citations and the confidence of the candidates
VoiceKeepsFallback ==
    /\ pc = "done"
    /\ result.fn = "voice_chat"
    /\ result.status = "ok"
    /\ result.answer = <<"N", "f", "_", "m">>
    /\ result.citations # <<>>
\* ------------------------------------------------- claims on the quiz parse
\* C20 as stated: a response between a fence line and a closing ``` line
\* parses to the structured result of the text between the fences, and a
\* text that holds no JSON parses to empty mcqs and short_answer with the
\* original text as raw_response.
FencesTransparent ==
    /\ (quiz.pc = "done" /\ quiz.fenced
            /\ parse_json_response(quiz.text).json) =>
          quiz.out = parse_json_response(quiz.text)
    /\ (quiz.pc = "done" /\ ~json_loads(strip(quiz.text)).ok) =>
          quiz.out = [json |-> FALSE, mcqs |-> <<>>, short_answer |-> <<>>,
                      raw_response |-> quiz.raw]

\* the response the claim fails on: the object {} after a form feed parses
\* to {} as it is and to the fallback between fences
FormFeedInFences ==
    /\ quiz.pc = "done"
    /\ quiz.fenced
    /\ quiz.text = <<"\f", "{", "}">>
    /\ parse_json_response(quiz.text) = [json |-> TRUE, value |-> <<"{", "}">>]
    /\ ~quiz.out.json
\* the model's text of the last quiz request is not a JSON object with
\* well-formed questions
Malformed ==
    LET parsed == parse_json_response(quiz.text)
    IN  \/ ~parsed.json
        \/ ~is_dict(parsed.value)
        \/ ~all_valid(mcqs_of(parsed.value))

\* C21 as stated: whatever text the model returns, generate_study_questions
\* returns a result with subject_id and /study_mode answers 200 with one,
\* with empty mcqs and short_answer when the text is malformed, and with the
\* raw text when it is not JSON.
StudyNeverFails ==
    /\ quiz.pc = "generated" =>
          /\ quiz.engine.status = "ok"
          /\ quiz.engine.result.subject_id = strip(quiz.subject_id)
          /\ (Malformed /\ quiz.engine.result.error = Absent) =>
                quiz.engine.result.mcqs = <<>>
    /\ quiz.pc = "answered" =>
          /\ quiz.response.code = 200
          /\ quiz.response.body.subject_id = strip(quiz.subject_id)
          /\ (Malformed /\ quiz.response.body.error = Absent) =>
                /\ quiz.response.body.mcqs = <<>>
                /\ quiz.response.body.short_answer = <<>>
          /\ (~parse_json_response(quiz.text).json
                  /\ quiz.response.body.error = Absent) =>
                quiz.response.body.raw_response = <<quiz.text>>

\* a model output that is a JSON list makes the engine raise
StudyListRaises ==
    /\ quiz.pc = "generated"
    /\ quiz.text = <<"[", "]">>
    /\ quiz.engine.status = "TypeError"

\* a question without its fields makes the handler answer 500
StudyItemFails ==
    /\ quiz.pc = "answered"
    /\ quiz.text = <<"{", "M", "}">>
    /\ quiz.response.code = 500
\* ------------------------------------------------------ claims on listing
StoredSubjects == {collection[i].subject_id : i \in 1..Len(collection)}

StoredFiles(subject_id) ==
    {collection[i].file_name :
        i \in {j \in 1..Len(collection) :
                  collection[j].subject_id = subject_id}}

\* C22 as stated: get_subjects() is the ascending list of the subject ids
\* that have a stored chunk and get_files_for_subject(A) the ascending list
\* of the file names of the chunks of A, however many chunks are stored.
ListingExact ==
    /\ lastop.op = "get_subjects" =>
          lastop.result.ret = sorted(StoredSubjects)
    /\ lastop.op = "get_files_for_subject" =>
          lastop.result.ret = sorted(StoredFiles(lastop.subject_id))

\* a subject whose only chunk is the 1001st of the collection is not listed
SubjectBeyondScroll ==
    /\ lastop.op = "get_subjects"
    /\ Len(collection) = 1001
    /\ StoredSubjects = Subjects
    /\ Len(lastop.result.ret) = 1

\* on a collection one scroll returns whole, the listing is exact
SmallListing ==
    /\ lastop.op = "get_subjects"
    /\ Len(collection) = 3
    /\ lastop.result.ret = << <<"P">>, <<"m">> >>
\* ------------------------------------------- claims on garbage collection
\* C23: the pass that create_session runs removes exactly the sessions with
\* now - last_active > SESSION_TTL; a session idle for SESSION_TTL or less,
\* exactly SESSION_TTL included, stays, with its subject_id, its history and
\* its last_active as they were.
GcEvictsExactlyExpired ==
    [][nextId' # nextId =>
          \A sid \in DOMAIN sessions :
              IF now - sessions[sid].last_active > SESSION_TTL
              THEN sid \notin DOMAIN sessions'
              ELSE /\ sid \in DOMAIN sessions'
                   /\ sessions'[sid] = sessions[sid]]_vars

\* a pass has kept a session idle for exactly SESSION_TTL, history and all
GcKeepsAtTtl ==
    /\ call.op = "create_session"
    /\ \E sid \in DOMAIN sessions :
          /\ now - sessions[sid].last_active = SESSION_TTL
          /\ sessions[sid].history # <<>>
\* ------------------------------------------------- claims on alternation
\* C30: every stored history has even length and alternates user, assistant,
\* user, assistant, ... from its first message on; the trim to 2 * MAX_TURNS
\* messages drops whole pairs.
HistoryAlternates ==
    \A sid \in DOMAIN sessions :
        LET history == sessions[sid].history
        IN  /\ Len(history) % 2 = 0
            /\ \A i \in 1..Len(history) :
                  history[i].role = IF i % 2 = 1 THEN "user" ELSE "assistant"

\* a history that add_turn has trimmed: 2 * MAX_TURNS messages kept of more
TrimmedHistory ==
    \E sid \in DOMAIN sessions :
        /\ call.op = "add_turn"
        /\ call.sid = sid
        /\ Len(sessions[sid].history) = MAX_TURNS * 2
        /\ Len(appended[sid]) > MAX_TURNS * 2
        /\ sessions[sid].history[1].role = "user"
\* -------------------------------------------------- claims on paragraphs
\* the paragraphs ingest_txt and ingest_pdf split page p of the last document
\* into
ParagraphsOfPage(p) == paragraphs_of(lastop.file.doc[p])

Fed == SubSeq(req.history, 1 + Len(req.history)
                             - (IF Len(req.history) < 6
                                THEN Len(req.history) ELSE 6),
              Len(req.history))

\* one history message as the prompt shows it
Labelled(msg) ==
    <<"\n">> \o (IF msg.role = <<"u">> THEN <<"U">> ELSE <<"A">>)
        \o <<":", " ">> \o msg.content

\* where the k-th fed message starts in the history message of the prompt
RECURSIVE Offset(_)
Offset(k) == IF k = 1 THEN Len(Previous)
             ELSE Offset(k - 1) + Len(Labelled(Fed[k - 1]))

\* C25: the prompt chat hands to the language model starts with the system
\* prompt and ends with the query as a user message; from a history of n
\* messages it holds, in one user message between the two, the last
\* min(6, n) messages in their order, each under its role, and nothing else;
\* without history there is no such message.
PromptHistory ==
    (pc = "prompted" /\ result.llm_called) =>
        LET msgs == result.messages
        IN  /\ msgs[1] = ChatMessage("SYSTEM", system_prompt(req.subject_id))
            /\ msgs[Len(msgs)] = ChatMessage("USER", req.query)
            /\ IF req.history = <<>>
               THEN Len(msgs) = 2
               ELSE /\ Len(msgs) = 3
                    /\ msgs[2].role = "USER"
                    /\ SubSeq(msgs[2].content, 1, Len(Previous)) = Previous
                    /\ \A k \in 1..Len(Fed) :
                          SubSeq(msgs[2].content, Offset(k) + 1,
                                 Offset(k + 1)) = Labelled(Fed[k])
                    /\ Len(msgs[2].content) = Offset(Len(Fed) + 1)

\* a history of seven messages: the prompt starts at the second one
PromptDropsOldest ==
    /\ pc = "prompted"
    /\ result.llm_called
    /\ Len(req.history) = 7
    /\ req.history[1].role = <<"u">>
    /\ req.history[2].role = <<"a">>
    /\ Len(result.messages) = 3
    /\ SubSeq(result.messages[2].content, 1, 5)
          = <<"P", "c", ":", "\n", "A">>
\* ------------------------------------------- claims on sessions and voice
\* C26 as stated: a turn that /voice/chat appends to a session was answered
\* against the subject the session is bound to, whatever subject_id the
\* request carries: whenever a request has returned its answer, the subject
\* its retrieval was scoped to is the subject_id of its session.
TurnsOfBoundSubject ==
    \A r \in DOMAIN voice :
        (/\ voice[r].pc = "done"
         /\ voice[r].response.code = 200
         /\ voice[r].session_id \in DOMAIN sessions) =>
            voice[r].subject_id = sessions[voice[r].session_id].subject_id

\* C27 as stated: a /voice/chat request that ends in an error leaves the
\* conversation memory as the request found it: no session more, none less,
\* none changed.
ErrorLeavesMemory ==
    \A r \in DOMAIN voice :
        (/\ voice[r].pc = "done"
         /\ voice[r].response.code \notin {0, 200}) =>
            sessions = voice[r].before
\* the turn request r stores: its transcript and the answer to it
Turn(r) ==
    <<Message("user", voice[r].transcript),
      Message("assistant", voice[r].result.answer)>>

\* C28 as stated: with requests interleaved at their awaits, no update is
\* lost and no pair is split: the step in which a request completes with an
\* answer puts its user message and, right after it, its answer at the end
\* of the history its session has at that moment, cut to 2 * MAX_TURNS
\* messages, and leaves the other sessions alone; every other step of a
\* request leaves all stored histories as they are.
NoLostUpdate ==
    [][\A r \in DOMAIN voice :
          /\ (voice[r].pc = "tts" /\ voice'[r].pc = "done") =>
                LET sid == voice[r].session_id
                IN  /\ sid \in DOMAIN sessions'
                    /\ sid \in DOMAIN sessions
                    /\ sessions'[sid].history
                          = LastN(sessions[sid].history \o Turn(r),
                                  MAX_TURNS * 2)
                    /\ \A x \in DOMAIN sessions \ {sid} :
                          /\ x \in DOMAIN sessions'
                          /\ sessions'[x].history = sessions[x].history
          /\ (voice[r].pc \in {"read", "stt", "chat"}
                 /\ voice'[r].pc # voice[r].pc) =>
                \A x \in DOMAIN sessions :
                    /\ x \in DOMAIN sessions'
                    /\ sessions'[x].history = sessions[x].history]_vars

\* C29 as stated: at the moment a request returns a successful response
\* with session_id S, S is stored and its history ends with the transcript
\* and the answer of that response.
ReturnedSessionUsable ==
    [][\A r \in DOMAIN voice :
          (/\ voice[r].pc # "done"
           /\ voice'[r].pc = "done"
           /\ voice'[r].response.code = 200) =>
              LET S == voice'[r].response.session_id
              IN  /\ S \in DOMAIN sessions'
                  /\ Len(sessions'[S].history) >= 2
                  /\ LastN(sessions'[S].history, 2)
                        = <<Message("user", voice'[r].response.transcript),
                            Message("assistant", voice'[r].response.answer)>>]_vars
====
